---- MODULE Spec2Model ----
(***************************************************************************)
(* State-machine model of the push-to-talk session hook (usePushToTalk),   *)
(* the capture service (AudioRecorder) and the streaming transcription     *)
(* client (DeepgramService).                                               *)
(*                                                                         *)
(* Every event-loop task (a command, a promise continuation, a socket or   *)
(* audio event, a timer callback) is one action.  React functional state   *)
(* updates are applied in the order they are queued, so each setState is   *)
(* applied inside the action that issues it.                               *)
(*                                                                         *)
(* Text is a sequence of one-character strings.  Time is Date.now() in     *)
(* milliseconds.  Audio samples are integers in thousandths.               *)
(***************************************************************************)
EXTENDS Integers, Sequences, FiniteSets, TLC

\* ------------------------------------------------------------- bounds
\* number of startRecording() calls in one run
MaxStarts == 2
\* number of final transcript events folded into one committed text
MaxFinals == 2
\* number of clock advances in one run
MaxTicks == 2
\* milliseconds per clock advance
TickMs == 600
\* number of audio chunks sent on one connection, with concurrent start calls
MaxChunksConcurrent == 0
\* the same within one recording session
MaxChunks == 2
\* number of inbound messages logged in one recording session
MaxWire == 2

\* ---------------------------------------------------- program constants
\* one sample unit (1.0) in thousandths
SampleUnit == 1000
PcmNegativeScale == 32768
PcmPositiveScale == 32767
\* setInterval period of the duration tick
IntervalMs == 1000

\* ---------------------------------------------------------------- text
SP == " "

IsSpace(c) == c \in {" ", "\t", "\n"}

RECURSIVE TrimStart(_)
TrimStart(s) ==
    IF s = <<>> THEN s
    ELSE IF IsSpace(Head(s)) THEN TrimStart(Tail(s)) ELSE s

RECURSIVE TrimEnd(_)
TrimEnd(s) ==
    IF s = <<>> THEN s
    ELSE IF IsSpace(s[Len(s)]) THEN TrimEnd(SubSeq(s, 1, Len(s) - 1)) ELSE s

\* String.prototype.trim
Trim(s) == TrimEnd(TrimStart(s))

\* String.prototype.split(/\s+/): the pieces between maximal whitespace runs;
\* the empty string gives one empty piece.
RECURSIVE SplitWsFrom(_, _, _)
SplitWsFrom(s, cur, inGap) ==
    IF s = <<>> THEN <<cur>>
    ELSE IF IsSpace(Head(s))
         THEN IF inGap THEN SplitWsFrom(Tail(s), cur, TRUE)
              ELSE <<cur>> \o SplitWsFrom(Tail(s), <<>>, TRUE)
         ELSE SplitWsFrom(Tail(s), Append(cur, Head(s)), FALSE)

SplitWs(s) == SplitWsFrom(s, <<>>, FALSE)

\* fullText.trim().split(/\s+/).filter(w => w.length > 0).length
CountWords(fullText) ==
    Len(SelectSeq(SplitWs(Trim(fullText)), LAMBDA w : Len(w) > 0))

LowerChar(c) ==
    CASE c = "C" -> "c"
      [] c = "T" -> "t"
      [] c = "D" -> "d"
      [] c = "E" -> "e"
      [] OTHER -> c

\* String.prototype.toLowerCase
ToLowerCase(s) == [i \in 1..Len(s) |-> LowerChar(s[i])]

\* String.prototype.includes
Includes(s, sub) ==
    \E i \in 0..(Len(s) - Len(sub)) : SubSeq(s, i + 1, i + Len(sub)) = sub

ClearTranscriptPhrase ==
    <<"c","l","e","a","r"," ","t","r","a","n","s","c","r","i","p","t">>

DeleteEverythingPhrase ==
    <<"d","e","l","e","t","e"," ","e","v","e","r","y","t","h","i","n","g">>

\* a voice-command test that compares the text as spoken, capitals included
IsVoiceClearCaseSensitive(text) ==
    LET spoken == Trim(text)
    IN  Includes(spoken, ClearTranscriptPhrase) \/ Includes(spoken, DeleteEverythingPhrase)

\* the voice-command test on a final text
IsVoiceClear(text) ==
    LET lower == Trim(ToLowerCase(text))
    IN  Includes(lower, ClearTranscriptPhrase) \/ Includes(lower, DeleteEverythingPhrase)

\* ------------------------------------------------------ backend texts
Foo == <<"f","o","o">>
Bar == <<"b","a","r">>
Blank == <<" ">>
HelloWor == <<"h","e","l","l","o"," ","w","o","r">>
HelloWorld == <<"h","e","l","l","o"," ","w","o","r","l","d">>
SayClear == <<"C","l","e","a","r"," ","T","r","a","n","s","c","r","i","p","t">>
SayDelete ==
    <<"o","k"," ","D","e","l","e","t","e"," ","E","v","e","r","y","t","h","i","n","g">>

Texts == {Foo, Bar, Blank, HelloWor, HelloWorld, SayClear, SayDelete}

\* ------------------------------------------------------------- state
StartIds == 1..MaxStarts

NoError == "null"

VARIABLES
    state,            \* the hook's React state (PushToTalkState)
    recorderRef,      \* TRUE when the AudioRecorder has been created
    deepgramRef,      \* TRUE when the DeepgramService has been created
    startTimeRef,     \* Date.now() of the latest startRecording
    timerIntervalRef, \* id of the interval the hook remembers, 0 for null
    timers,           \* ids of the intervals that are still scheduled
    mediaStream,      \* AudioRecorder.mediaStream/audioContext/processor, 0 for null
    capture,          \* per acquired microphone stream: "none", "live", "stopped"
    socket,           \* DeepgramService.socket, 0 for null
    ws,               \* per WebSocket: "none", "connecting", "open", "closed"
    calls,            \* where each startRecording() call is suspended
    nextId,           \* number of startRecording() calls made so far
    now,              \* Date.now()
    ticks,            \* clock advances so far
    apiKey,           \* TRUE when a Deepgram key is configured
    finals,           \* history variable: final texts since committed was last emptied
    closed,           \* history variable: the start calls made before the latest stop
    sent,             \* per socket, the messages handed to socket.send, in order
    wire,             \* history variable: inbound messages and the events they yielded
    clipboard,        \* the texts handed to ClipboardService.copyToClipboard, in order
    analysed          \* history variable: the frame last handed to analyzeAudio, if any

vars == <<state, recorderRef, deepgramRef, startTimeRef, timerIntervalRef, timers,
          mediaStream, capture, socket, ws, calls, nextId, now, ticks, apiKey,
          finals, closed, sent, wire, clipboard, analysed>>

InitialState ==
    [ isRecording |-> FALSE,
      transcript |-> <<>>,
      interimTranscript |-> <<>>,
      error |-> NoError,
      connectionState |-> "disconnected",
      autoInsert |-> FALSE,
      history |-> <<>>,
      statusMessage |-> "null",
      audioStatus |-> "silence",
      sessionDuration |-> 0,
      wordCount |-> 0,
      charCount |-> 0,
      volume |-> 0 ]

Init ==
    /\ state = InitialState
    /\ recorderRef = FALSE
    /\ deepgramRef = FALSE
    /\ startTimeRef = 0
    /\ timerIntervalRef = 0
    /\ timers = {}
    /\ mediaStream = 0
    /\ capture = [i \in StartIds |-> "none"]
    /\ socket = 0
    /\ ws = [i \in StartIds |-> "none"]
    /\ calls = [i \in StartIds |-> "idle"]
    /\ nextId = 0
    /\ now = 0
    /\ ticks = 0
    /\ apiKey \in BOOLEAN
    /\ finals = <<>>
    /\ closed = {}
    /\ sent = [i \in StartIds |-> <<>>]
    /\ wire = <<>>
    /\ clipboard = <<>>
    /\ analysed = <<>>


\* --------------------------------------------------- capture service
\* AudioRecorder.stop(): the tracks of the stream the recorder holds are
\* stopped, its processor disconnected and its context closed.
RecorderStop(cap, ms) ==
    IF ms # 0 THEN [cap EXCEPT ![ms] = "stopped"] ELSE cap

\* ---------------------------------------------- transcription client
\* DeepgramService.isConnected()
IsConnected(w, s) == s # 0 /\ w[s] = "open"

\* DeepgramService.disconnect(): only an OPEN socket is closed; the field is
\* cleared whatever the socket's state.
Disconnect(w, s) ==
    IF s # 0 /\ w[s] = "open" THEN [w EXCEPT ![s] = "closed"] ELSE w

\* what socket.send is given: an audio chunk or the CloseStream JSON text
AudioMessage(data) == [type |-> "audio", data |-> data]

CloseStream == [type |-> "CloseStream", data |-> <<>>]

\* DeepgramService.sendAudio(data)
SendAudio(log, w, s, data) ==
    IF s # 0 /\ w[s] = "open" THEN [log EXCEPT ![s] = Append(@, AudioMessage(data))] ELSE log

\* a disconnect that closes the socket without a CloseStream message
DisconnectSendsNothing(log, w, s) == log

\* DeepgramService.disconnect(): what it sends
DisconnectSends(log, w, s) ==
    IF s # 0 /\ w[s] = "open" THEN [log EXCEPT ![s] = Append(@, CloseStream)] ELSE log

\* inbound messages: a Results message carries channel.alternatives[0].transcript
\* and is_final; Metadata stands for any other JSON shape; Garbage is not JSON.
Results(text, isFinal) == [shape |-> "Results", transcript |-> text, is_final |-> isFinal]

Metadata == [shape |-> "Metadata", transcript |-> <<>>, is_final |-> FALSE]

Garbage == [shape |-> "Garbage", transcript |-> <<>>, is_final |-> FALSE]

Messages ==
    {Results(t, f) : t \in Texts \cup {<<>>}, f \in BOOLEAN} \cup {Metadata, Garbage}

\* the messages the backend sends in the runs with concurrent start calls and
\* in the runs of one session's audio stream
LifeMessages == {Results(Foo, FALSE), Results(Blank, FALSE), Metadata}

\* an onmessage that passes every parsed message to the transcript callback
YieldsTranscriptAnyJson(m) == m.shape # "Garbage"

\* socket.onmessage: whether the message reaches the transcript callback
YieldsTranscript(m) == m.shape = "Results" /\ m.transcript # <<>>

\* socket.onmessage: the transcript events one message yields
OnMessageEvents(m) ==
    IF YieldsTranscript(m)
    THEN <<[text |-> m.transcript, isFinal |-> m.is_final]>>
    ELSE <<>>

\* ------------------------------------------------- hook state updates
\* a transcript callback that joins final texts without the separating space
TranscriptUpdateNoSpace(prev, text, isFinal) ==
    LET newTranscript == IF isFinal THEN prev.transcript \o text ELSE prev.transcript
        fullText == IF isFinal THEN newTranscript ELSE newTranscript \o <<SP>> \o text
    IN  IF isFinal
        THEN [prev EXCEPT !.transcript = newTranscript,
                          !.interimTranscript = <<>>,
                          !.wordCount = CountWords(fullText),
                          !.charCount = Len(fullText)]
        ELSE [prev EXCEPT !.interimTranscript = text,
                          !.wordCount = CountWords(fullText),
                          !.charCount = Len(fullText)]

\* a transcript callback that keeps the pending text on a final event
TranscriptUpdateKeepsPending(prev, text, isFinal) ==
    LET newTranscript ==
            IF isFinal
            THEN (IF prev.transcript # <<>>
                  THEN prev.transcript \o <<SP>> \o text
                  ELSE text)
            ELSE prev.transcript
        fullText == IF isFinal THEN newTranscript ELSE newTranscript \o <<SP>> \o text
    IN  IF isFinal
        THEN [prev EXCEPT !.transcript = newTranscript,
                          !.wordCount = CountWords(fullText),
                          !.charCount = Len(fullText)]
        ELSE [prev EXCEPT !.interimTranscript = text,
                          !.wordCount = CountWords(fullText),
                          !.charCount = Len(fullText)]

\* a transcript callback that appends an interim text to the pending text
TranscriptUpdateAppendsPending(prev, text, isFinal) ==
    LET newTranscript ==
            IF isFinal
            THEN (IF prev.transcript # <<>>
                  THEN prev.transcript \o <<SP>> \o text
                  ELSE text)
            ELSE prev.transcript
        fullText == IF isFinal THEN newTranscript ELSE newTranscript \o <<SP>> \o text
    IN  IF isFinal
        THEN [prev EXCEPT !.transcript = newTranscript,
                          !.interimTranscript = <<>>,
                          !.wordCount = CountWords(fullText),
                          !.charCount = Len(fullText)]
        ELSE [prev EXCEPT !.interimTranscript = prev.interimTranscript \o text,
                          !.wordCount = CountWords(fullText),
                          !.charCount = Len(fullText)]

\* the first setState of the transcript callback
TranscriptUpdate(prev, text, isFinal) ==
    LET newTranscript ==
            IF isFinal
            THEN (IF prev.transcript # <<>>
                  THEN prev.transcript \o <<SP>> \o text
                  ELSE text)
            ELSE prev.transcript
        fullText == IF isFinal THEN newTranscript ELSE newTranscript \o <<SP>> \o text
        words == CountWords(fullText)
        chars == Len(fullText)
    IN  IF isFinal
        THEN [prev EXCEPT !.transcript = newTranscript,
                          !.interimTranscript = <<>>,
                          !.wordCount = words,
                          !.charCount = chars]
        ELSE [prev EXCEPT !.interimTranscript = text,
                          !.wordCount = words,
                          !.charCount = chars]

\* the second setState of the transcript callback (voice command)
VoiceClear(prev) ==
    [prev EXCEPT !.transcript = <<>>, !.interimTranscript = <<>>,
                 !.wordCount = 0, !.charCount = 0]

\* a transcript callback that also marks the session as recording
OnTranscriptMarksRecording(prev, text, isFinal) ==
    LET s1 == TranscriptUpdate(prev, text, isFinal)
        s2 == IF isFinal /\ IsVoiceClear(text) THEN VoiceClear(s1) ELSE s1
    IN  [s2 EXCEPT !.isRecording = TRUE]

\* the transcript callback given to DeepgramService
OnTranscript(prev, text, isFinal) ==
    LET s1 == TranscriptUpdate(prev, text, isFinal)
    IN  IF isFinal /\ IsVoiceClear(text) THEN VoiceClear(s1) ELSE s1

\* the setState at the head of startRecording
StartUpdate(prev) ==
    [prev EXCEPT !.isRecording = TRUE, !.error = NoError, !.statusMessage = "null",
                 !.transcript = <<>>, !.sessionDuration = 0]

\* a catch block that records the error but leaves the recording flag set
StartFailedUpdateStillRecording(prev, message) ==
    [prev EXCEPT !.connectionState = "disconnected", !.error = message]

\* the setState of startRecording's catch block
StartFailedUpdate(prev, message) ==
    [prev EXCEPT !.isRecording = FALSE, !.connectionState = "disconnected",
                 !.error = message]

\* handleStop: full text of the session
FullText(current) ==
    IF current.interimTranscript # <<>>
    THEN current.transcript \o <<SP>> \o current.interimTranscript
    ELSE current.transcript

\* a history record whose duration is the stop time itself
NewRecordSinceEpoch(current, t, startTime) ==
    [ id |-> t, timestamp |-> t, text |-> Trim(FullText(current)),
      duration |-> t, wordCount |-> CountWords(FullText(current)) ]

\* handleStop: the history record of the session; duration is kept in
\* milliseconds (the code divides by 1000)
NewRecord(current, t, startTime) ==
    [ id |-> t, timestamp |-> t, text |-> Trim(FullText(current)),
      duration |-> t - startTime, wordCount |-> CountWords(FullText(current)) ]

\* a handleStop that copies the text whatever the auto-insert setting
ClipboardWritesAlways(log, current) ==
    IF current.isRecording /\ Trim(FullText(current)) # <<>>
    THEN Append(log, Trim(FullText(current)))
    ELSE log

\* handleStop: the call of ClipboardService.copyToClipboard inside its updater
ClipboardWrites(log, current) ==
    IF current.isRecording /\ current.autoInsert /\ Trim(FullText(current)) # <<>>
    THEN Append(log, Trim(FullText(current)))
    ELSE log

\* a handleStop that records every session, empty or not
StopUpdateAlwaysRecords(current, t, startTime) ==
    IF ~current.isRecording THEN current
    ELSE [current EXCEPT
            !.isRecording = FALSE,
            !.connectionState = "disconnected",
            !.interimTranscript = <<>>,
            !.statusMessage = "null",
            !.history = <<NewRecord(current, t, startTime)>> \o current.history,
            !.audioStatus = "silence"]

\* a handleStop that files the record of the session after the earlier ones
StopUpdateOldestFirst(current, t, startTime) ==
    IF ~current.isRecording THEN current
    ELSE [current EXCEPT
            !.isRecording = FALSE,
            !.connectionState = "disconnected",
            !.interimTranscript = <<>>,
            !.statusMessage = "null",
            !.history = IF Trim(FullText(current)) # <<>>
                        THEN current.history \o <<NewRecord(current, t, startTime)>>
                        ELSE current.history,
            !.audioStatus = "silence"]

\* the setState of handleStop
StopUpdate(current, t, startTime) ==
    IF ~current.isRecording THEN current
    ELSE [current EXCEPT
            !.isRecording = FALSE,
            !.connectionState = "disconnected",
            !.interimTranscript = <<>>,
            !.statusMessage = "null",
            !.history = IF Trim(FullText(current)) # <<>>
                        THEN <<NewRecord(current, t, startTime)>> \o current.history
                        ELSE current.history,
            !.audioStatus = "silence"]

\* clearTranscript
ClearUpdate(prev) ==
    [prev EXCEPT !.transcript = <<>>, !.wordCount = 0, !.charCount = 0,
                 !.sessionDuration = 0]

\* the interval callback
TickUpdate(prev, t, startTime) ==
    [prev EXCEPT !.sessionDuration = (t - startTime) \div IntervalMs]

\* clearInterval(timerIntervalRef.current) when the ref is set
\* a clearInterval that cancels nothing
ClearIntervalNothing(ts, ref) == ts

ClearInterval(ts, ref) == ts \ {ref}


\* ------------------------------------------------------ audio frames
\* AnalyserNode.frequencyBinCount for fftSize 512
BinCount == 256
\* silenceThreshold 0.005, in thousandths
SilenceThreshold == 5
\* centroid > 60
CentroidThreshold == 60
\* zcrRatio > 0.3, in tenths
ZcrThresholdTenths == 3
\* Math.round(rms * 400)
VolumeScale == 400
\* Math.min(100, ...)
VolumeMax == 100

RECURSIVE SumSquares(_)
SumSquares(x) == IF x = <<>> THEN 0 ELSE Head(x) * Head(x) + SumSquares(Tail(x))

\* sum of i * dataArray[i] over the bins lo..hi
RECURSIVE WeightedSum(_, _, _)
WeightedSum(d, lo, hi) ==
    IF lo > hi THEN 0
    ELSE IF lo = hi THEN lo * d[lo]
    ELSE LET mid == (lo + hi) \div 2
         IN  WeightedSum(d, lo, mid) + WeightedSum(d, mid + 1, hi)

\* sum of dataArray[i] over the bins lo..hi
RECURSIVE TotalWeight(_, _, _)
TotalWeight(d, lo, hi) ==
    IF lo > hi THEN 0
    ELSE IF lo = hi THEN d[lo]
    ELSE LET mid == (lo + hi) \div 2
         IN  TotalWeight(d, lo, mid) + TotalWeight(d, mid + 1, hi)

RECURSIVE ZeroCrossings(_, _)
ZeroCrossings(x, i) ==
    IF i > Len(x) THEN 0
    ELSE (IF (x[i] >= 0 /\ x[i - 1] < 0) \/ (x[i] < 0 /\ x[i - 1] >= 0) THEN 1 ELSE 0)
         + ZeroCrossings(x, i + 1)

\* Math.round(rms * 400) for rms = sqrt(sumSquares / n) / 1000: the largest v
\* with v - 1/2 <= (400 / 1000) * sqrt(sumSquares / n), that is
\* (2v - 1)^2 * 10^2 * n <= 4 * (400 / 100)^2 * sumSquares
RoundedVolume(sumSquares, n) ==
    LET k == VolumeScale \div 100
        reached(v) ==
            v = 0 \/ (2 * v - 1) * (2 * v - 1) * 100 * n <= 4 * k * k * sumSquares
        wholes == sumSquares \div (n * SampleUnit * SampleUnit)
        top == CHOOSE b \in 1..(VolumeScale * (1 + wholes) + 1) : ~reached(b)
    IN  CHOOSE v \in 0..top : reached(v) /\ ~reached(v + 1)

\* analyzeAudio: the volume it emits
EmittedVolume(frame) ==
    LET v == RoundedVolume(SumSquares(frame.samples), Len(frame.samples))
    IN  IF v < VolumeMax THEN v ELSE VolumeMax

\* an analyzeAudio for which one of the two features is enough for noise
AnalyzeAudioEitherFeature(frame) ==
    LET n == Len(frame.samples)
        sumSquares == SumSquares(frame.samples)
        weightedSum == WeightedSum(frame.spectrum, 0, BinCount - 1)
        totalWeight == TotalWeight(frame.spectrum, 0, BinCount - 1)
        zcr == ZeroCrossings(frame.samples, 2)
    IN  IF sumSquares < SilenceThreshold * SilenceThreshold * n THEN "silence"
        ELSE IF \/ totalWeight > 0 /\ weightedSum > CentroidThreshold * totalWeight
                \/ zcr * 10 > ZcrThresholdTenths * n
             THEN "music_noise"
             ELSE "speech"

\* an analyzeAudio that takes a spectrum without energy for silence
AnalyzeAudioEmptySpectrumSilent(frame) ==
    LET n == Len(frame.samples)
        sumSquares == SumSquares(frame.samples)
        weightedSum == WeightedSum(frame.spectrum, 0, BinCount - 1)
        totalWeight == TotalWeight(frame.spectrum, 0, BinCount - 1)
        zcr == ZeroCrossings(frame.samples, 2)
    IN  IF sumSquares < SilenceThreshold * SilenceThreshold * n THEN "silence"
        ELSE IF totalWeight = 0 THEN "silence"
        ELSE IF /\ weightedSum > CentroidThreshold * totalWeight
                /\ zcr * 10 > ZcrThresholdTenths * n
             THEN "music_noise"
             ELSE "speech"

\* analyzeAudio: the status it returns
AnalyzeAudio(frame) ==
    LET n == Len(frame.samples)
        sumSquares == SumSquares(frame.samples)
        weightedSum == WeightedSum(frame.spectrum, 0, BinCount - 1)
        totalWeight == TotalWeight(frame.spectrum, 0, BinCount - 1)
        zcr == ZeroCrossings(frame.samples, 2)
    IN  IF sumSquares < SilenceThreshold * SilenceThreshold * n THEN "silence"
        ELSE IF /\ totalWeight > 0
                /\ weightedSum > CentroidThreshold * totalWeight
                /\ zcr * 10 > ZcrThresholdTenths * n
             THEN "music_noise"
             ELSE "speech"

Peak(bin, level) == [i \in 0..(BinCount - 1) |-> IF i = bin THEN level ELSE 0]

QuietFrame == [samples |-> <<1, -2, 1, 0>>, spectrum |-> Peak(100, 3)]
VoiceFrame == [samples |-> <<100, 200, 100, 200>>, spectrum |-> Peak(20, 180)]
HissFrame == [samples |-> <<300, -300, 300, -300>>, spectrum |-> Peak(100, 200)]

Frames == {QuietFrame, VoiceFrame, HissFrame}

\* a spectrum with energy in two bins
Peaks(binA, levelA, binB, levelB) ==
    [i \in 0..(BinCount - 1) |->
        IF i = binA THEN levelA ELSE IF i = binB THEN levelB ELSE 0]

\* spectra with no energy, with a centroid below, at and above the centroid
\* threshold
ClassifierSpectra ==
    { Peak(0, 0), Peak(20, 180), Peak(60, 200), Peak(61, 200),
      Peaks(59, 100, 61, 100), Peaks(59, 100, 62, 100) }

\* sample frames below and at the silence threshold, loud frames with zero to
\* three sign changes in four samples, frames that pass through zero, and two
\* frames of ten samples with three and four sign changes
ClassifierSamples ==
    { <<a, b, c, d>> : a \in {0, 5}, b \in {0, 5}, c \in {0, 5}, d \in {0, 5} }
    \cup { <<a, b, c, d>> : a \in {-300, 300}, b \in {-300, 300},
                            c \in {-300, 300}, d \in {-300, 300} }
    \cup { <<300, 0, -300, 0>>, <<-5, 5, -5, 0>>,
           <<300, -300, 300, -300, -300, -300, -300, -300, -300, -300>>,
           <<300, -300, 300, -300, 300, 300, 300, 300, 300, 300>> }

\* the frames given to the classifier
ClassifierFrames ==
    { [samples |-> x, spectrum |-> d] : x \in ClassifierSamples, d \in ClassifierSpectra }

\* samples inside, at the ends of and outside [-1, 1], in thousandths
PcmSamples == {-1500, -1000, -1, 0, 1, 500, 1000, 1500}

\* the frames given to the PCM conversion
PcmFrames ==
    { [samples |-> <<a, b>>, spectrum |-> Peak(20, 180)] : a \in PcmSamples, b \in PcmSamples }

AllFrames == Frames \cup ClassifierFrames \cup PcmFrames

\* the frames the microphone delivers in the runs with concurrent start calls
LifeFrames == {VoiceFrame}

\* status and volume of each frame of the model
FrameStatus == [f \in AllFrames |-> AnalyzeAudio(f)]
FrameVolume == [f \in AllFrames |-> EmittedVolume(f)]

\* a floatTo16BitPCM that scales every sample by 0x7FFF
FloatTo16BitPCMOneScale(input) ==
    [k \in 1..Len(input) |->
        LET s == IF input[k] < -SampleUnit THEN -SampleUnit
                 ELSE IF input[k] > SampleUnit THEN SampleUnit
                 ELSE input[k]
        IN  IF s < 0
            THEN -((-s * PcmPositiveScale) \div SampleUnit)
            ELSE (s * PcmPositiveScale) \div SampleUnit]

\* floatTo16BitPCM on samples in thousandths: clamp to [-1, 1], scale negative
\* samples by 0x8000 and the others by 0x7FFF; the store into the Int16Array
\* drops the fraction
FloatTo16BitPCM(input) ==
    [k \in 1..Len(input) |->
        LET s == IF input[k] < -SampleUnit THEN -SampleUnit
                 ELSE IF input[k] > SampleUnit THEN SampleUnit
                 ELSE input[k]
        IN  IF s < 0
            THEN -((-s * PcmNegativeScale) \div SampleUnit)
            ELSE (s * PcmPositiveScale) \div SampleUnit]

\* the chunk the data callback is given for each frame of the model
FrameChunk == [f \in AllFrames |-> FloatTo16BitPCM(f.samples)]

\* a data callback that hands the chunk to whatever socket the client holds
OnDataAvailableUnguarded(log, ref, w, s, data) ==
    IF ref /\ s # 0 THEN [log EXCEPT ![s] = Append(@, AudioMessage(data))] ELSE log

\* the data callback the hook gives the recorder
OnDataAvailable(log, ref, w, s, data) ==
    IF ref /\ IsConnected(w, s) THEN SendAudio(log, w, s, data) ELSE log


\* ------------------------------------------------------------ actions
TimerCleared == IF timerIntervalRef # 0 THEN ClearInterval(timers, timerIntervalRef) ELSE timers

\* startRecording() up to its first await (getUserMedia inside recorder.start)
StartRecording ==
    /\ nextId < MaxStarts
    /\ LET i == nextId + 1
       IN  /\ nextId' = i
           /\ state' = StartUpdate(state)
           /\ startTimeRef' = now
           /\ timers' = TimerCleared \cup {i}
           /\ timerIntervalRef' = i
           /\ recorderRef' = TRUE
           /\ deepgramRef' = TRUE
           /\ capture' = RecorderStop(capture, mediaStream)
           /\ mediaStream' = 0
           /\ calls' = [calls EXCEPT ![i] = "getUserMedia"]
    /\ finals' = <<>>
    /\ UNCHANGED <<socket, ws, now, ticks, apiKey, closed, sent, wire,
                   clipboard, analysed>>

\* startRecording's catch block for call i
StartFailed(i, st, message) ==
    /\ state' = StartFailedUpdate(st, message)
    /\ timers' = TimerCleared
    /\ calls' = [calls EXCEPT ![i] = "failed"]

\* getUserMedia resolves: the recorder takes the stream and builds its audio graph
GetUserMediaOk(i) ==
    /\ calls[i] = "getUserMedia"
    /\ mediaStream' = i
    /\ capture' = [capture EXCEPT ![i] = "live"]
    /\ calls' = [calls EXCEPT ![i] = "resume"]
    /\ UNCHANGED <<state, recorderRef, deepgramRef, startTimeRef, timerIntervalRef,
                   timers, socket, ws, nextId, now, ticks, apiKey, finals, closed, sent, wire,
                   clipboard, analysed>>

\* getUserMedia rejects (permission denied, device missing or busy)
GetUserMediaFail(i) ==
    /\ calls[i] = "getUserMedia"
    /\ StartFailed(i, state, "NotAllowedError")
    /\ UNCHANGED <<recorderRef, deepgramRef, startTimeRef, timerIntervalRef,
                   mediaStream, capture, socket, ws, nextId, now, ticks, apiKey,
                   finals, closed, sent, wire,
                   clipboard, analysed>>

\* audioContext.resume() settles; recorder.start returns or throws, and
\* startRecording runs on to deepgram.connect
ResumeDone(i) ==
    /\ calls[i] = "resume"
    /\ IF capture[i] # "live" \/ mediaStream = 0
       THEN /\ StartFailed(i, state, "TypeError")
            /\ UNCHANGED <<socket, ws>>
       ELSE IF IsConnected(ws, socket)
       THEN /\ calls' = [calls EXCEPT ![i] = "done"]
            /\ UNCHANGED <<state, timers, socket, ws>>
       ELSE IF ~apiKey
       THEN /\ StartFailed(i, [state EXCEPT !.connectionState = "connecting"],
                           "Missing Deepgram API Key")
            /\ UNCHANGED <<socket, ws>>
       ELSE /\ state' = [state EXCEPT !.connectionState = "connecting"]
            /\ socket' = i
            /\ ws' = [ws EXCEPT ![i] = "connecting"]
            /\ calls' = [calls EXCEPT ![i] = "connect"]
            /\ UNCHANGED timers
    /\ UNCHANGED <<recorderRef, deepgramRef, startTimeRef, timerIntervalRef,
                   mediaStream, capture, nextId, now, ticks, apiKey, finals, closed, sent, wire,
                   clipboard, analysed>>

\* socket.onopen: connect resolves and startRecording finishes
SocketOpen(i) ==
    /\ ws[i] = "connecting"
    /\ ws' = [ws EXCEPT ![i] = "open"]
    /\ state' = [state EXCEPT !.connectionState = "connected"]
    /\ calls' = [calls EXCEPT ![i] = "done"]
    /\ UNCHANGED <<recorderRef, deepgramRef, startTimeRef, timerIntervalRef, timers,
                   mediaStream, capture, socket, nextId, now, ticks, apiKey, finals,
                   closed, sent, wire,
                   clipboard, analysed>>

\* socket.onerror: the error callback runs; a pending connect rejects
SocketError(i) ==
    /\ ws[i] \in {"connecting", "open"}
    /\ ws' = [ws EXCEPT ![i] = "closed"]
    /\ LET notified == [state EXCEPT !.error = "WebSocket connection error"]
       IN  IF ws[i] = "connecting"
           THEN StartFailed(i, notified, "WebSocket connection failed")
           ELSE /\ state' = notified
                /\ UNCHANGED <<timers, calls>>
    /\ UNCHANGED <<recorderRef, deepgramRef, startTimeRef, timerIntervalRef,
                   mediaStream, capture, socket, nextId, now, ticks, apiKey, finals,
                   closed, sent, wire,
                   clipboard, analysed>>

\* socket.onclose without an error event: the backend ends the connection
SocketClose(i) ==
    /\ ws[i] = "open"
    /\ ws' = [ws EXCEPT ![i] = "closed"]
    /\ UNCHANGED <<state, recorderRef, deepgramRef, startTimeRef, timerIntervalRef,
                   timers, mediaStream, capture, socket, calls, nextId, now, ticks,
                   apiKey, finals, closed, sent, wire,
                   clipboard, analysed>>

\* socket.onmessage on an OPEN socket; at most maxFinals final texts are folded
\* into one committed text
Deliver(i, m, maxFinals) ==
    /\ ws[i] = "open"
    /\ (YieldsTranscript(m) /\ m.is_final) => Len(finals) < maxFinals
    /\ state' = IF YieldsTranscript(m)
                THEN OnTranscript(state, m.transcript, m.is_final)
                ELSE state
    /\ finals' = IF YieldsTranscript(m) /\ m.is_final
                 THEN (IF IsVoiceClear(m.transcript) THEN <<>>
                       ELSE Append(finals, m.transcript))
                 ELSE finals
    /\ UNCHANGED <<recorderRef, deepgramRef, startTimeRef, timerIntervalRef, timers,
                   mediaStream, capture, socket, ws, calls, nextId, now, ticks,
                   apiKey, closed, sent, clipboard, analysed>>

SocketMessage(i, m) == Deliver(i, m, MaxFinals) /\ UNCHANGED wire

\* an audio callback that keeps frames classified as silence to itself
CaptureSkipsSilence(i, f, maxChunks) ==
    /\ capture[i] = "live"
    /\ IsConnected(ws, socket) => Len(sent[socket]) < maxChunks
    /\ state' = [state EXCEPT !.volume = FrameVolume[f], !.audioStatus = FrameStatus[f]]
    /\ sent' = IF FrameStatus[f] = "silence" THEN sent
               ELSE OnDataAvailable(sent, deepgramRef, ws, socket, FrameChunk[f])
    /\ UNCHANGED <<recorderRef, deepgramRef, startTimeRef, timerIntervalRef, timers,
                   mediaStream, capture, socket, ws, calls, nextId, now, ticks,
                   apiKey, finals, closed, wire, clipboard>>

\* processor.onaudioprocess of the audio graph built for stream i: the volume
\* and status callbacks set state; the data callback hands the encoded chunk to
\* sendAudio.  At most maxChunks chunks are sent on one connection.
Capture(i, f, maxChunks) ==
    /\ capture[i] = "live"
    /\ IsConnected(ws, socket) => Len(sent[socket]) < maxChunks
    /\ state' = [state EXCEPT !.volume = FrameVolume[f], !.audioStatus = FrameStatus[f]]
    /\ sent' = OnDataAvailable(sent, deepgramRef, ws, socket, FrameChunk[f])
    /\ UNCHANGED <<recorderRef, deepgramRef, startTimeRef, timerIntervalRef, timers,
                   mediaStream, capture, socket, ws, calls, nextId, now, ticks,
                   apiKey, finals, closed, wire, clipboard>>

AudioProcess(i, f) == Capture(i, f, MaxChunksConcurrent) /\ UNCHANGED analysed

\* handleStop (stopRecording)
HandleStop ==
    /\ timers' = TimerCleared
    /\ timerIntervalRef' = 0
    /\ state' = StopUpdate(state, now, startTimeRef)
    /\ recorderRef' = TRUE
    /\ deepgramRef' = TRUE
    /\ capture' = RecorderStop(capture, mediaStream)
    /\ mediaStream' = 0
    /\ ws' = Disconnect(ws, socket)
    /\ socket' = 0
    /\ closed' = 1..nextId
    /\ sent' = DisconnectSends(sent, ws, socket)
    /\ clipboard' = ClipboardWrites(clipboard, state)
    /\ UNCHANGED <<startTimeRef, calls, nextId, now, ticks, apiKey, finals, wire,
                   analysed>>

\* handleGlobalToggle: the listener of the global push-to-talk event
HandleGlobalToggle == IF recorderRef THEN HandleStop ELSE StartRecording

\* clearTranscript
ClearTranscript ==
    /\ state' = ClearUpdate(state)
    /\ finals' = <<>>
    /\ UNCHANGED <<recorderRef, deepgramRef, startTimeRef, timerIntervalRef, timers,
                   mediaStream, capture, socket, ws, calls, nextId, now, ticks,
                   apiKey, closed, sent, wire,
                   clipboard, analysed>>

\* toggleAutoInsert
ToggleAutoInsert ==
    /\ state' = [state EXCEPT !.autoInsert = ~state.autoInsert]
    /\ UNCHANGED <<recorderRef, deepgramRef, startTimeRef, timerIntervalRef, timers,
                   mediaStream, capture, socket, ws, calls, nextId, now, ticks,
                   apiKey, finals, closed, sent, wire, clipboard, analysed>>

\* the clock advances
Tick ==
    /\ ticks < MaxTicks
    /\ ticks' = ticks + 1
    /\ now' = now + TickMs
    /\ UNCHANGED <<state, recorderRef, deepgramRef, startTimeRef, timerIntervalRef,
                   timers, mediaStream, capture, socket, ws, calls, nextId, apiKey,
                   finals, closed, sent, wire,
                   clipboard, analysed>>

\* the interval callback of a scheduled timer, due once a period has passed
TimerFire(t) ==
    /\ t \in timers
    /\ now >= startTimeRef + IntervalMs
    /\ state' = TickUpdate(state, now, startTimeRef)
    /\ UNCHANGED <<recorderRef, deepgramRef, startTimeRef, timerIntervalRef, timers,
                   mediaStream, capture, socket, ws, calls, nextId, now, ticks,
                   apiKey, finals, closed, sent, wire,
                   clipboard, analysed>>

\* Start and stop commands, completions, socket and audio events in any
\* interleaving, with up to MaxStarts start calls; the clock stands still.
Next ==
    \/ StartRecording
    \/ HandleStop
    \/ \E i \in StartIds : GetUserMediaOk(i)
    \/ \E i \in StartIds : GetUserMediaFail(i)
    \/ \E i \in StartIds : ResumeDone(i)
    \/ \E i \in StartIds : SocketOpen(i)
    \/ \E i \in StartIds : SocketError(i)
    \/ \E i \in StartIds : SocketClose(i)
    \/ \E i \in StartIds, m \in LifeMessages : SocketMessage(i, m)
    \/ \E i \in StartIds, f \in LifeFrames : AudioProcess(i, f)

Spec == Init /\ [][Next]_vars


\* ------------------------------------------- one recording session
\* The state a start call reaches when the microphone is granted and the
\* handshake succeeds: StartRecording, GetUserMediaOk(1), ResumeDone(1),
\* SocketOpen(1).  The start call is made when the clock has advanced up to
\* once.
InitSession ==
    /\ state = [InitialState EXCEPT !.isRecording = TRUE, !.connectionState = "connected"]
    /\ recorderRef = TRUE
    /\ deepgramRef = TRUE
    /\ ticks \in {0, 1}
    /\ now = ticks * TickMs
    /\ startTimeRef = now
    /\ timerIntervalRef = 1
    /\ timers = {1}
    /\ mediaStream = 1
    /\ capture = [i \in StartIds |-> IF i = 1 THEN "live" ELSE "none"]
    /\ socket = 1
    /\ ws = [i \in StartIds |-> IF i = 1 THEN "open" ELSE "none"]
    /\ calls = [i \in StartIds |-> IF i = 1 THEN "done" ELSE "idle"]
    /\ nextId = 1
    /\ apiKey = TRUE
    /\ finals = <<>>
    /\ closed = {}
    /\ sent = [i \in StartIds |-> <<>>]
    /\ wire = <<>>
    /\ clipboard = <<>>
    /\ analysed = <<>>

SessionMessage(m) == Deliver(1, m, MaxFinals) /\ UNCHANGED wire

\* One session from its first transcript event to its stop, with every message
\* of the backend and a running clock.
NextSession ==
    \/ \E m \in Messages : SessionMessage(m)
    \/ ClearTranscript
    \/ HandleStop
    \/ Tick
    \/ TimerFire(1)

SpecSession == InitSession /\ [][NextSession]_vars


\* ------------------------------------- one session's inbound messages
\* socket.onmessage of the session's socket, with the message and the
\* transcript events it yielded written to the log
Receive(m) ==
    /\ Len(wire) < MaxWire
    /\ Deliver(1, m, MaxFinals)
    /\ wire' = Append(wire, [message |-> m, events |-> OnMessageEvents(m)])

\* One session's inbound messages, logged, up to its stop.
NextWire ==
    \/ \E m \in Messages : Receive(m)
    \/ HandleStop

SpecWire == InitSession /\ [][NextWire]_vars


\* ------------------------------------------------ a session after others
\* the record a session saying text from startTime to t has left in the history
EarlierRecord(text, startTime, t) ==
    NewRecord([InitialState EXCEPT !.isRecording = TRUE, !.transcript = text],
              t, startTime)

\* the histories of no, one and two earlier sessions, each a tick long, the
\* last one ending a tick before the clock's origin
EarlierHistories ==
    { <<>>,
      << EarlierRecord(Bar, -2 * TickMs, -TickMs) >>,
      << EarlierRecord(Bar, -2 * TickMs, -TickMs),
         EarlierRecord(Foo, -4 * TickMs, -3 * TickMs) >> }

\* The state after startRecording has connected a session when earlier
\* sessions have left their records.
InitHistory ==
    /\ \E h \in EarlierHistories :
          state = [InitialState EXCEPT !.isRecording = TRUE,
                                       !.connectionState = "connected",
                                       !.history = h]
    /\ recorderRef = TRUE
    /\ deepgramRef = TRUE
    /\ ticks \in {0, 1}
    /\ now = ticks * TickMs
    /\ startTimeRef = now
    /\ timerIntervalRef = 1
    /\ timers = {1}
    /\ mediaStream = 1
    /\ capture = [i \in StartIds |-> IF i = 1 THEN "live" ELSE "none"]
    /\ socket = 1
    /\ ws = [i \in StartIds |-> IF i = 1 THEN "open" ELSE "none"]
    /\ calls = [i \in StartIds |-> IF i = 1 THEN "done" ELSE "idle"]
    /\ nextId = 1
    /\ apiKey = TRUE
    /\ finals = <<>>
    /\ closed = {}
    /\ sent = [i \in StartIds |-> <<>>]
    /\ wire = <<>>
    /\ clipboard = <<>>
    /\ analysed = <<>>

\* the operations of the controller on a session that follows others
NextHistory ==
    \/ \E m \in LifeMessages : SessionMessage(m)
    \/ \E m \in {Results(Foo, TRUE), Results(SayClear, TRUE)} : SessionMessage(m)
    \/ ClearTranscript
    \/ ToggleAutoInsert
    \/ HandleStop
    \/ Tick
    \/ TimerFire(1)

SpecHistory == InitHistory /\ [][NextHistory]_vars


\* ------------------------------------------- one session's auto-insert
\* One session with the auto-insert setting toggled at any moment, up to and
\* past its stop.
NextInsert ==
    \/ \E m \in Messages : SessionMessage(m)
    \/ ToggleAutoInsert
    \/ HandleStop

SpecInsert == InitSession /\ [][NextInsert]_vars


\* ----------------------------------------- one session's audio stream
\* The state a start call reaches when the microphone is granted and the
\* handshake is under way: StartRecording, GetUserMediaOk(1), ResumeDone(1).
InitStream ==
    /\ state = [InitialState EXCEPT !.isRecording = TRUE, !.connectionState = "connecting"]
    /\ recorderRef = TRUE
    /\ deepgramRef = TRUE
    /\ startTimeRef = 0
    /\ timerIntervalRef = 1
    /\ timers = {1}
    /\ mediaStream = 1
    /\ capture = [i \in StartIds |-> IF i = 1 THEN "live" ELSE "none"]
    /\ socket = 1
    /\ ws = [i \in StartIds |-> IF i = 1 THEN "connecting" ELSE "none"]
    /\ calls = [i \in StartIds |-> IF i = 1 THEN "connect" ELSE "idle"]
    /\ nextId = 1
    /\ now = 0
    /\ ticks = 0
    /\ apiKey = TRUE
    /\ finals = <<>>
    /\ closed = {}
    /\ sent = [i \in StartIds |-> <<>>]
    /\ wire = <<>>
    /\ clipboard = <<>>
    /\ analysed = <<>>

StreamFrame(f) == Capture(1, f, MaxChunks) /\ UNCHANGED analysed

\* One session's audio frames and inbound messages, before and after its
\* connection opens, with the connection failing or ending and the stop.
NextStream ==
    \/ \E f \in Frames : StreamFrame(f)
    \/ \E m \in LifeMessages : SocketMessage(1, m)
    \/ SocketOpen(1)
    \/ SocketError(1)
    \/ SocketClose(1)
    \/ HandleStop

SpecStream == InitStream /\ [][NextStream]_vars


\* ------------------------------------------------ classifier and encoder
\* onaudioprocess on a frame, with the frame kept beside its results
Analyse(f) == Capture(1, f, MaxChunks) /\ analysed' = <<f>>

\* The audio loop of a session whose connection is not open yet: every frame
\* is classified and its status and volume are published.
NextClassify ==
    \/ \E f \in ClassifierFrames : Analyse(f)
    \/ HandleStop

SpecClassify == InitStream /\ [][NextClassify]_vars

\* The audio loop of a connected session: every frame is encoded and sent.
NextPcm ==
    \/ \E f \in PcmFrames : Analyse(f)
    \/ HandleStop

SpecPcm == InitSession /\ [][NextPcm]_vars


\* ------------------------------------------------ the global toggle
\* The hook driven by the global push-to-talk event alone, with the callbacks
\* of the start calls it makes.
NextToggle ==
    \/ HandleGlobalToggle
    \/ \E i \in StartIds : GetUserMediaOk(i)
    \/ \E i \in StartIds : GetUserMediaFail(i)
    \/ \E i \in StartIds : ResumeDone(i)
    \/ \E i \in StartIds : SocketOpen(i)
    \/ \E i \in StartIds : SocketError(i)
    \/ \E i \in StartIds : SocketClose(i)
    \/ \E i \in StartIds, m \in LifeMessages : SocketMessage(i, m)
    \/ \E i \in StartIds, f \in LifeFrames : AudioProcess(i, f)

SpecToggle == Init /\ [][NextToggle]_vars


\* ------------------------------------------------ a session and the next
\* what the backend says on the first connection, until the next start
FirstSessionMessage(m) == nextId = 1 /\ Deliver(1, m, MaxFinals) /\ UNCHANGED wire

\* what the backend says on the connection of the second start call
SecondSessionMessage(m) ==
    nextId = 2 /\ socket = 2 /\ Deliver(2, m, MaxFinals) /\ UNCHANGED wire

\* startRecording called when no session is recording
Restart == ~state.isRecording /\ StartRecording

\* A session whose connection is still opening, its stop, and the session
\* started after it; the backend says foo in the first and bar in the second.
NextRestart ==
    \/ \E isFinal \in BOOLEAN : FirstSessionMessage(Results(Foo, isFinal))
    \/ \E isFinal \in BOOLEAN : SecondSessionMessage(Results(Bar, isFinal))
    \/ SocketOpen(1)
    \/ SocketOpen(2)
    \/ HandleStop
    \/ Restart
    \/ GetUserMediaOk(2)
    \/ ResumeDone(2)

SpecRestart == InitStream /\ [][NextRestart]_vars


\* ------------------------------------------------------------ claims
LiveCaptures == {i \in StartIds : capture[i] = "live"}

LiveSockets == {i \in StartIds : ws[i] \in {"connecting", "open"}}

Pending == {"getUserMedia", "resume", "connect"}

\* C1: in every reachable state at most one live capture handle and at most
\* one connecting or open backend connection exist, whatever the interleaving
\* of start and stop commands with the completions of capture start and connect.
C1_AtMostOnePair ==
    Cardinality(LiveCaptures) <= 1 /\ Cardinality(LiveSockets) <= 1

\* what late callbacks must leave alone
SessionView ==
    <<state.transcript, state.interimTranscript, state.wordCount, state.charCount,
      state.audioStatus, state.volume>>

\* C2: once stop() has returned, an audio frame or a transcript event coming
\* from a capture or a connection of a start call made before that stop does
\* not change transcript, pending text, counts, audio status or volume.
C2_LateCallbacksDropped ==
    [][\A i \in closed :
         ((\E f \in LifeFrames : AudioProcess(i, f))
            \/ (\E m \in LifeMessages : SocketMessage(i, m)))
         => SessionView' = SessionView]_vars

\* C3: connectionState changes only along disconnected -> connecting,
\* connecting -> connected and connected -> disconnected.
C3_ConnectionEdges ==
    [][state'.connectionState # state.connectionState
         => <<state.connectionState, state'.connectionState>> \in
              { <<"disconnected", "connecting">>,
                <<"connecting", "connected">>,
                <<"connected", "disconnected">> }]_vars

HasText(s) == \E k \in 1..Len(s) : ~IsSpace(s[k])

\* C4: a stop of a recording session puts exactly one new record in front of
\* the history when committed or pending text holds a non-blank character and
\* leaves the history alone otherwise; no other step changes the history.
C4_OneRecordPerSession ==
    [][/\ (HandleStop /\ state.isRecording)
            => IF HasText(state.transcript) \/ HasText(state.interimTranscript)
               THEN /\ Len(state'.history) = Len(state.history) + 1
                    /\ Tail(state'.history) = state.history
               ELSE state'.history = state.history
       /\ state'.history # state.history => (HandleStop /\ state.isRecording)]_vars

\* two sessions ended by stop, each with text, have left two records
C4_Witness ==
    /\ Len(state.history) = 2
    /\ closed = {1, 2}
    /\ ~state.isRecording

\* C5: when getUserMedia, the audio context or the connect of a start call
\* fails, the step that handles the failure leaves isRecording false,
\* connectionState disconnected, no interval scheduled, an error recorded and
\* the history as it was.
C5_StartFailureReturnsToIdle ==
    [][(\E i \in StartIds : calls[i] \in Pending /\ calls'[i] = "failed")
         => /\ ~state'.isRecording
            /\ state'.connectionState = "disconnected"
            /\ timers' = {}
            /\ state'.error # NoError
            /\ state'.history = state.history]_vars

\* a connect failed while the state said connecting, after an earlier session
\* had left a record
C5_Witness ==
    /\ \E i \in StartIds : calls[i] = "failed" /\ ws[i] = "closed"
    /\ state.error = "WebSocket connection failed"
    /\ Len(state.history) = 1
    /\ ~state.isRecording

\* C6: when connect fails after the capture service has started, the step that
\* handles the failure leaves the capture service without a microphone handle.
C6_CaptureTornDownOnConnectFailure ==
    [][\A i \in StartIds :
         (calls[i] = "connect" /\ calls'[i] = "failed")
           => (mediaStream' = 0 /\ capture'[i] # "live")]_vars

\* C7: a start command issued while a session is recording (capture live,
\* connection open) leaves committed and pending text, counts, start timestamp,
\* duration, interval, capture handle and connection as they were.
C7_StartWhileRecordingIsNoOp ==
    [][(/\ state.isRecording
        /\ state.connectionState = "connected"
        /\ mediaStream # 0 /\ capture[mediaStream] = "live"
        /\ IsConnected(ws, socket)
        /\ nextId' # nextId)
         => UNCHANGED <<state, startTimeRef, timerIntervalRef, timers, mediaStream,
                        capture, socket, ws>>]_vars

\* C8: stop() while the session is not recording leaves the session state
\* unchanged and touches neither the capture nor the connection.
C8_StopWhenIdleIsNoOp ==
    [][(HandleStop /\ ~state.isRecording)
         => UNCHANGED <<state, mediaStream, capture, socket, ws>>]_vars

RECURSIVE JoinBySpace(_)
JoinBySpace(texts) ==
    IF texts = <<>> THEN <<>>
    ELSE IF Len(texts) = 1 THEN texts[1]
    ELSE texts[1] \o <<" ">> \o JoinBySpace(Tail(texts))

\* C9: committed is the final texts delivered since it was last emptied (by a
\* start or a clear), in delivery order, joined by exactly one space.
C9_FinalsJoinedBySingleSpace ==
    state.transcript = JoinBySpace(finals)

\* "foo" then "bar" gave "foo bar"
C9_Witness ==
    /\ finals = <<Foo, Bar>>
    /\ state.transcript = <<"f","o","o"," ","b","a","r">>

\* C10: the step that processes a final transcript event leaves pending empty;
\* interim "hello wor" then final "hello world" on an empty transcript gives
\* committed "hello world", pending "" and word count 2.
C10_FinalClearsPending ==
    [][\A m \in Messages :
         (m.is_final /\ YieldsTranscript(m) /\ SessionMessage(m))
           => /\ state'.interimTranscript = <<>>
              /\ (/\ state.transcript = <<>>
                  /\ state.interimTranscript = HelloWor
                  /\ m.transcript = HelloWorld)
                   => /\ state'.transcript = HelloWorld
                      /\ state'.wordCount = 2]_vars

\* the final "hello world" has been processed
C10_Witness ==
    /\ finals = <<HelloWorld>>
    /\ state.transcript = HelloWorld
    /\ state.interimTranscript = <<>>
    /\ state.wordCount = 2

\* C11: an interim transcript event replaces the pending text wholesale with
\* the incoming text and leaves the committed text, the history, the
\* recording flag and the connection state as they were.
C11_InterimReplacesPending ==
    [][\A m \in Messages :
          (YieldsTranscript(m) /\ ~m.is_final /\ SessionMessage(m))
              => /\ state'.interimTranscript = m.transcript
                 /\ state'.transcript = state.transcript
                 /\ state'.history = state.history
                 /\ state'.isRecording = state.isRecording
                 /\ state'.connectionState = state.connectionState]_vars

\* an interim text stands as the pending text next to a committed text
C11_Witness ==
    /\ state.transcript = Foo
    /\ state.interimTranscript = Bar
    /\ state.charCount = Len(Foo) + 1 + Len(Bar)
    /\ state.isRecording

\* C12: a final transcript event whose text contains "clear transcript" or
\* "delete everything" in any capitalisation leaves committed and pending text
\* empty and both counts zero, with the recording flag, the connection state,
\* the capture and the connection as they were; a final event with neither
\* phrase appends its text to the committed text.
C12_VoiceCommandClears ==
    [][\A m \in Messages :
          (YieldsTranscript(m) /\ m.is_final /\ Receive(m))
              => IF m.transcript \in {SayClear, SayDelete}
                 THEN /\ state'.transcript = <<>>
                      /\ state'.interimTranscript = <<>>
                      /\ state'.wordCount = 0
                      /\ state'.charCount = 0
                      /\ state'.isRecording = state.isRecording
                      /\ state'.connectionState = state.connectionState
                      /\ UNCHANGED <<mediaStream, capture, socket, ws>>
                 ELSE /\ state'.transcript =
                            IF state.transcript = <<>> THEN m.transcript
                            ELSE state.transcript \o <<SP>> \o m.transcript
                      /\ state'.charCount = Len(state'.transcript)]_vars

\* a spoken "Delete Everything" arrived after a committed text and the
\* transcript stands empty while the session goes on
C12_Witness ==
    /\ wire = << [message |-> Results(Foo, TRUE), events |-> OnMessageEvents(Results(Foo, TRUE))],
                 [message |-> Results(SayDelete, TRUE),
                  events |-> OnMessageEvents(Results(SayDelete, TRUE))] >>
    /\ state.transcript = <<>>
    /\ state.charCount = 0
    /\ state.isRecording
    /\ IsConnected(ws, socket)

\* C13: the record a stop appends holds the full text of the session (the
\* committed text, then a space and the pending text when there is one) cut
\* from its first to its last non-blank character, the number of its
\* whitespace-separated words, and the time from the start call to the stop;
\* the stop leaves connectionState disconnected and the pending text empty.
C13_RecordFields ==
    [][(HandleStop /\ state.isRecording)
         => /\ state'.connectionState = "disconnected"
            /\ state'.interimTranscript = <<>>
            /\ ~state'.isRecording
            /\ state'.history # state.history
                 => LET r == Head(state'.history)
                        full == IF state.interimTranscript # <<>>
                                THEN state.transcript \o <<SP>> \o state.interimTranscript
                                ELSE state.transcript
                        inked == {k \in 1..Len(full) : ~IsSpace(full[k])}
                        lo == CHOOSE k \in inked : \A j \in inked : k <= j
                        hi == CHOOSE k \in inked : \A j \in inked : k >= j
                    IN  /\ r.text = SubSeq(full, lo, hi)
                        /\ r.wordCount =
                              Cardinality({k \in inked : k = 1 \/ IsSpace(full[k - 1])})
                        /\ r.duration = now - startTimeRef]_vars

\* a session started one clock advance in, stopped one advance later with a
\* committed and a pending word, has left its record
C13_Witness ==
    /\ Len(state.history) = 1
    /\ state.history[1].text = Foo \o <<SP>> \o Bar
    /\ state.history[1].wordCount = 2
    /\ state.history[1].timestamp = 2 * TickMs
    /\ state.history[1].duration = TickMs
    /\ ~state.isRecording
    /\ state.connectionState = "disconnected"
    /\ state.interimTranscript = <<>>

\* C14: a transcript event on the connection of a start call made before the
\* latest stop leaves the recording flag, the connection state, the scheduled
\* interval timers and the history as they were.
C14_LateEventDoesNotResurrect ==
    [][\A i \in closed :
          (ws[i] = "open" /\ UNCHANGED <<ws, calls, capture, sent>>)
              => \A m \in LifeMessages :
                    (YieldsTranscript(m) /\ SocketMessage(i, m))
                        => /\ state'.isRecording = state.isRecording
                           /\ state'.connectionState = state.connectionState
                           /\ state'.history = state.history
                           /\ state'.sessionDuration = state.sessionDuration
                           /\ UNCHANGED <<timers, timerIntervalRef, startTimeRef>>]_vars

\* the only session was stopped while its handshake was pending, the
\* connection opened afterwards and delivered a text; the session stays stopped
C14_Witness ==
    /\ nextId = 1
    /\ closed = {1}
    /\ ws[1] = "open"
    /\ state.interimTranscript = Foo
    /\ ~state.isRecording
    /\ timers = {}
    /\ state.history = <<>>

\* C15: while the capture is live and the client's connection is open, every
\* captured frame, silent, spoken or noisy, is encoded and handed to the
\* connection exactly once, and to no other connection.
C15_EveryFrameSentOnce ==
    [][\A f \in Frames :
          (StreamFrame(f) /\ IsConnected(ws, socket))
              => sent' = [sent EXCEPT ![socket] =
                              Append(@, AudioMessage(FloatTo16BitPCM(f.samples)))]]_vars

\* a silent frame and a noisy frame have both gone out on the open connection
C15_Witness ==
    /\ IsConnected(ws, socket)
    /\ capture[1] = "live"
    /\ sent[1] = << AudioMessage(FloatTo16BitPCM(QuietFrame.samples)),
                    AudioMessage(FloatTo16BitPCM(HissFrame.samples)) >>
    /\ state.audioStatus = "music_noise"

\* C16: a chunk produced while the client has no open connection is handed to
\* no socket and raises nothing, and a chunk enters a connection's log only in
\* the audio callback that produced it: the only other message ever sent is
\* the CloseStream of a stop.
C16_NoSendWithoutOpenConnection ==
    [][/\ \A f \in Frames :
            (StreamFrame(f) /\ ~IsConnected(ws, socket))
                => /\ sent' = sent
                   /\ state'.error = state.error
                   /\ UNCHANGED <<calls, socket, ws>>
       /\ sent' # sent
            => \/ \E f \in Frames :
                    /\ StreamFrame(f)
                    /\ IsConnected(ws, socket)
                    /\ sent'[socket] = Append(sent[socket], AudioMessage(FloatTo16BitPCM(f.samples)))
               \/ /\ HandleStop
                  /\ sent'[socket] = Append(sent[socket], CloseStream)]_vars

\* a frame was captured during the handshake; the connection has opened since
\* and has carried nothing
C16_Witness ==
    /\ ws[1] = "open"
    /\ socket = 1
    /\ sent[1] = <<>>
    /\ capture[1] = "live"
    /\ state.volume = FrameVolume[VoiceFrame]
    /\ state.audioStatus = "speech"
    /\ state.error = NoError

\* C17: a disconnect on an open connection sends one CloseStream, closes the
\* socket and drops it; nothing is sent on a connection after its CloseStream;
\* a disconnect of a client that holds no socket sends nothing and changes
\* nothing of the client.
C17_CloseStreamIsLast ==
    [][/\ (HandleStop /\ IsConnected(ws, socket))
            => /\ sent' = [sent EXCEPT ![socket] = Append(@, CloseStream)]
               /\ ws' = [ws EXCEPT ![socket] = "closed"]
               /\ socket' = 0
       /\ \A i \in StartIds :
            (sent[i] # <<>> /\ sent[i][Len(sent[i])] = CloseStream) => sent'[i] = sent[i]
       /\ \A i \in StartIds :
            Cardinality({k \in 1..Len(sent'[i]) : sent'[i][k] = CloseStream}) <= 1
       /\ (HandleStop /\ socket = 0) => UNCHANGED <<sent, ws, socket>>]_vars

\* two chunks went out, then the stop sent CloseStream and closed the socket
C17_Witness ==
    /\ Len(sent[1]) = 3
    /\ sent[1][1].type = "audio"
    /\ sent[1][2].type = "audio"
    /\ sent[1][3] = CloseStream
    /\ ws[1] = "closed"
    /\ socket = 0
    /\ ~state.isRecording

\* C18: every inbound message of the recognized shape yields exactly one
\* transcript event, carrying the transcript and the is_final flag of the
\* message, a message with an empty transcript included.
C18_RecognizedMessageYieldsEvent ==
    \A k \in 1..Len(wire) :
        wire[k].message.shape = "Results"
            => wire[k].events = << [text |-> wire[k].message.transcript,
                                    isFinal |-> wire[k].message.is_final] >>

C20_DropNotifiesController ==
    [][\A i \in StartIds :
          (/\ state.isRecording
           /\ socket = i
           /\ ws[i] = "open"
           /\ ws'[i] = "closed"
           /\ socket' = i)
              => /\ state'.error # NoError
                 /\ state'.isRecording
                 /\ nextId' = nextId
                 /\ \A j \in StartIds :
                        ws'[j] \in {"connecting", "open"} => ws[j] \in {"connecting", "open"}]_vars

\* C21: whenever connectionState says connected, the transcription client
\* holds an open socket.
C21_ConnectedMirrorsClient ==
    state.connectionState = "connected" => IsConnected(ws, socket)

\* C22: when a stop has called the capture service's stop(), no stream
\* acquired by an earlier start is live; when a start of the capture service
\* has returned, no stream acquired by a start before it is live; a stop() of
\* a capture service that holds no stream changes no stream.
C22_NoCaptureLeak ==
    [][/\ HandleStop => LiveCaptures' = {}
       /\ \A i \in StartIds :
            (calls[i] = "resume" /\ calls'[i] # "resume")
                => \A j \in 1..(i - 1) : capture'[j] # "live"
       /\ (HandleStop /\ mediaStream = 0) => capture' = capture]_vars

\* C23: a stop of a recording session hands the clipboard the full text of the
\* session, cut from its first to its last non-blank character, once, when
\* auto-insert is on and the text holds a non-blank character; with auto-insert
\* off, with no such character, or with no session recording, it hands it
\* nothing; no other step hands the clipboard anything.
C23_ClipboardOnStop ==
    [][/\ HandleStop
            => LET full == IF state.interimTranscript # <<>>
                           THEN state.transcript \o <<SP>> \o state.interimTranscript
                           ELSE state.transcript
                   inked == {k \in 1..Len(full) : ~IsSpace(full[k])}
                   lo == CHOOSE k \in inked : \A j \in inked : k <= j
                   hi == CHOOSE k \in inked : \A j \in inked : k >= j
               IN  IF state.isRecording /\ state.autoInsert /\ inked # {}
                   THEN clipboard' = Append(clipboard, SubSeq(full, lo, hi))
                   ELSE clipboard' = clipboard
       /\ clipboard' # clipboard => HandleStop]_vars

\* auto-insert was switched on during the session and the stop copied the
\* committed and the pending word, once
C23_Witness ==
    /\ clipboard = << Foo \o <<SP>> \o Bar >>
    /\ state.autoInsert
    /\ ~state.isRecording
    /\ state.history # <<>>

\* C24: every operation leaves the records of the history and their order as
\* they were, and a record it creates comes before all of them.
C24_HistoryNewestFirst ==
    [][\/ state'.history = state.history
       \/ /\ Len(state'.history) = Len(state.history) + 1
          /\ \A k \in 1..Len(state.history) : state'.history[k + 1] = state.history[k]
          /\ state'.history[1] \notin {state.history[k] : k \in 1..Len(state.history)}]_vars

\* a session has put its record before the records of two earlier sessions
C24_Witness ==
    /\ Len(state.history) = 3
    /\ state.history[1].text = Foo
    /\ state.history[1].timestamp > state.history[2].timestamp
    /\ state.history[2].timestamp > state.history[3].timestamp

\* the frame analysed last, while its status and volume are still published
Heard == IF analysed # <<>> /\ capture[1] = "live" THEN {analysed[1]} ELSE {}

\* the mean square of the samples is below the square of the silence threshold
BelowSilence(f) ==
    SumSquares(f.samples) < SilenceThreshold * SilenceThreshold * Len(f.samples)

\* no bin of the spectrum has energy
EmptySpectrum(f) == \A i \in 0..(BinCount - 1) : f.spectrum[i] = 0

\* sum over the bins lo..hi of (bin - c) * energy of the bin
RECURSIVE MomentAbout(_, _, _, _)
MomentAbout(d, c, lo, hi) ==
    IF lo > hi THEN 0
    ELSE IF lo = hi THEN (lo - c) * d[lo]
    ELSE MomentAbout(d, c, lo, (lo + hi) \div 2)
         + MomentAbout(d, c, (lo + hi) \div 2 + 1, hi)

\* the energy-weighted mean bin of the spectrum is above the centroid threshold
CentroidAbove(f) == MomentAbout(f.spectrum, CentroidThreshold, 0, BinCount - 1) > 0

\* more than ZcrThresholdTenths tenths of the samples differ in sign from the
\* sample before them
CrossingAbove(f) ==
    LET x == f.samples
        crossings == {k \in 2..Len(x) : (x[k] < 0) # (x[k - 1] < 0)}
    IN  Cardinality(crossings) * 10 > ZcrThresholdTenths * Len(x)

\* C25: the status published for a frame is silence when its RMS is below the
\* silence threshold, whatever its spectrum; otherwise it is music_noise exactly
\* when the centroid and the zero-crossing ratio are both above their
\* thresholds, and speech in every other case.
C25_ClassifyRule ==
    \A f \in Heard :
        state.audioStatus =
            IF BelowSilence(f) THEN "silence"
            ELSE IF CentroidAbove(f) /\ CrossingAbove(f) THEN "music_noise"
            ELSE "speech"

\* a loud frame that changes sign at every sample, with its energy above the
\* centroid threshold, has been classified as noise
C25_Witness ==
    \E f \in Heard :
        /\ f.samples = <<300, -300, 300, -300>>
        /\ f.spectrum = Peak(61, 200)
        /\ state.audioStatus = "music_noise"

\* C26 as stated: a frame whose spectrum has no energy is classified as
\* silence.
C26_EmptySpectrumIsSilence ==
    \A f \in Heard : EmptySpectrum(f) => state.audioStatus = "silence"

\* C26: every frame gets one of the three labels, and a frame whose spectrum
\* has no energy is never music_noise: it is silence when its RMS is below the
\* silence threshold and speech otherwise.
C26_EmptySpectrumByLoudness ==
    \A f \in Heard :
        /\ state.audioStatus \in {"silence", "speech", "music_noise"}
        /\ EmptySpectrum(f)
              => state.audioStatus = IF BelowSilence(f) THEN "silence" ELSE "speech"

\* a loud frame that changes sign at every sample, with a spectrum without
\* energy, has been classified as speech
C26_Witness ==
    \E f \in Heard :
        /\ f.samples = <<300, -300, 300, -300>>
        /\ EmptySpectrum(f)
        /\ state.audioStatus = "speech"

\* the chunk sent last on the open connection, with the samples it encodes
Encoded ==
    IF /\ analysed # <<>>
       /\ IsConnected(ws, socket)
       /\ sent[socket] # <<>>
    THEN {[samples |-> analysed[1].samples, message |-> sent[socket][Len(sent[socket])]]}
    ELSE {}

\* a sample limited to [-1, 1], in thousandths
Limited(s) == IF s < -SampleUnit THEN -SampleUnit ELSE IF s > SampleUnit THEN SampleUnit ELSE s

\* the scale of a sample: 0x8000 below zero, 0x7FFF otherwise
PcmScale(s) == IF s < 0 THEN PcmNegativeScale ELSE PcmPositiveScale

\* C27 as stated: each output is the scaled sample rounded to the nearest
\* integer (a half may go either way), and a sample outside [-1, 1] gives the
\* extreme of its sign.
C27_PcmRounds ==
    \A e \in Encoded :
        /\ e.message.type = "audio"
        /\ Len(e.message.data) = Len(e.samples)
        /\ \A k \in 1..Len(e.samples) :
             LET exact == Limited(e.samples[k]) * PcmScale(e.samples[k])
                 diff == e.message.data[k] * SampleUnit - exact
             IN  /\ e.message.data[k] \in -PcmNegativeScale..PcmPositiveScale
                 /\ 2 * diff <= SampleUnit
                 /\ 2 * diff >= -SampleUnit

\* C27: each output is the sample, limited to [-1, 1] and scaled by 0x8000 below
\* zero and by 0x7FFF otherwise, with its fraction dropped; so a sample outside
\* [-1, 1] gives 32767 or -32768 and every output fits sixteen signed bits.
C27_PcmTruncates ==
    \A e \in Encoded :
        /\ e.message.type = "audio"
        /\ Len(e.message.data) = Len(e.samples)
        /\ \A k \in 1..Len(e.samples) :
             LET exact == Limited(e.samples[k]) * PcmScale(e.samples[k])
                 out == e.message.data[k]
             IN  /\ out \in -PcmNegativeScale..PcmPositiveScale
                 /\ exact >= 0 => out * SampleUnit <= exact /\ exact < (out + 1) * SampleUnit
                 /\ exact < 0 => out * SampleUnit >= exact /\ exact > (out - 1) * SampleUnit
                 /\ e.samples[k] > SampleUnit => out = PcmPositiveScale
                 /\ e.samples[k] < -SampleUnit => out = -PcmNegativeScale

\* a chunk made of half of full scale and of a sample below -1 has been sent
\* as 16383 and -32768
C27_Witness ==
    \E e \in Encoded :
        /\ e.samples = <<500, -1500>>
        /\ e.message = AudioMessage(<<16383, -32768>>)

\* the number of maximal runs of non-blank characters of a text
WordsOf(s) ==
    Cardinality({k \in 1..Len(s) : ~IsSpace(s[k]) /\ (k = 1 \/ IsSpace(s[k - 1]))})

\* C28: once a transcript event has been processed, the word count is the
\* number of words of the committed text followed by the pending text, and
\* the character count is the length of the two texts, joined by one space
\* when neither is empty.
C28_LiveCounts ==
    [][\A m \in Messages :
          (YieldsTranscript(m) /\ SessionMessage(m))
              => LET joined == IF state'.transcript # <<>> /\ state'.interimTranscript # <<>>
                               THEN state'.transcript \o <<SP>> \o state'.interimTranscript
                               ELSE state'.transcript \o state'.interimTranscript
                 IN  /\ state'.wordCount = WordsOf(joined)
                     /\ state'.charCount = Len(joined)]_vars

\* C29: at most one tick timer is active, and one is active exactly when
\* isRecording is true.
C29_OneTimerWhileRecording ==
    /\ Cardinality(timers) <= 1
    /\ state.isRecording <=> timers # {}

\* a second start has replaced the timer of the first and has then failed,
\* which cancelled the timer
C29_Witness ==
    /\ nextId = 2
    /\ calls[2] = "failed"
    /\ ~state.isRecording
    /\ timers = {}

\* C30: when isRecording is false and no start call is awaiting, no microphone
\* stream is live, the client has no open connection and connectionState is
\* disconnected.
C30_IdleHoldsNothing ==
    (~state.isRecording /\ \A i \in StartIds : calls[i] \notin Pending)
        => /\ LiveCaptures = {}
           /\ ~IsConnected(ws, socket)
           /\ state.connectionState = "disconnected"

\* C31: when disconnect() has returned (it is called by every stop), no socket
\* the client created is open or still connecting; and when connect() puts a
\* new socket in the client's field, the socket that was there is neither open
\* nor connecting.
C31_DisconnectLeavesNoTransport ==
    [][/\ HandleStop => LiveSockets' = {}
       /\ (socket # 0 /\ socket' # 0 /\ socket' # socket) => socket \notin LiveSockets']_vars

\* C32: the record a stop files for the second session holds only text the
\* backend said between that session's start and its stop, none of the text
\* it said before.
C32_RecordFromOwnSession ==
    [][(nextId = 2 /\ Len(state'.history) > Len(state.history))
          => LET text == state'.history[1].text
             IN  \A k \in 1..Len(text) :
                    text[k] \in {Bar[j] : j \in 1..Len(Bar)} \cup {SP}]_vars

\* C33: whenever the committed and the pending text are both empty, the word
\* count and the character count are zero.
C33_EmptyTextZeroCounts ==
    (state.transcript = <<>> /\ state.interimTranscript = <<>>)
        => (state.wordCount = 0 /\ state.charCount = 0)

\* C34: a global push-to-talk event starts a session when none is recording
\* and stops the session when one is recording.
C34_ToggleStartsOrStops ==
    [][HandleGlobalToggle
          => IF state.isRecording
             THEN ~state'.isRecording
             ELSE state'.isRecording /\ nextId' = nextId + 1]_vars

====
